---- MODULE Spec2Model ----
(***************************************************************************)
(* The Windows hostcall implementations of wasi-common                     *)
(* (sys/windows/hostcalls_impl/misc.rs: clock_res_get, clock_time_get,     *)
(* poll_oneoff) behind the hostcalls! wrapper of macros.rs.                *)
(*                                                                         *)
(* Execution is synchronous: every hostcall is one atomic step.  A Rust    *)
(* panic (expect, panic!, assert_ne!, unimplemented!) leaves the wrapper   *)
(* without a trace record and without a status; the model stops there.     *)
(*                                                                         *)
(* Spec       the guest assembles a subscription list and calls            *)
(*            poll_oneoff through the wrapper.                             *)
(* SpecClock  the guest calls clock_res_get / clock_time_get through the   *)
(*            wrapper while the host clocks advance and the wall clock is  *)
(*            adjusted.                                                    *)
(***************************************************************************)
EXTENDS Integers, Sequences, FiniteSets

VARIABLES
    pc,               \* "idle" | "returned" | "panicked"
    name,             \* hostcall of the current invocation ("" while idle)
    fd_events,        \* poll_oneoff: Vec<FdEventData> argument
    timeout,          \* poll_oneoff: Option<ClockEventData> (<<>> is None)
    meta,             \* host's answer to os_file.metadata() during the call
    events,           \* poll_oneoff: the &mut Vec<__wasi_event_t>
    path,             \* branch of poll_oneoff taken: none|noop|immediate|wait
    ret,              \* what the platform implementation produced
    trace,            \* records written by log::trace! in this invocation
    status,           \* Option<__wasi_errno_t> handed back to the guest
    clock_id,         \* clock hostcalls: the clock id argument
    wall,             \* host SystemTime, ns relative to UNIX_EPOCH
    instant,          \* host performance counter (Instant), ns
    START_MONOTONIC,  \* lazy_static Option<Instant>
    PERF_COUNTER_RES, \* lazy_static Option<u64>
    perfFreq,         \* QueryPerformanceFrequency of this host
    monoMax           \* largest MONOTONIC reading of the earlier calls, -1 if none

vars == <<pc, name, fd_events, timeout, meta, events, path, ret, trace, status,
          clock_id, wall, instant, START_MONOTONIC, PERF_COUNTER_RES, perfFreq,
          monoMax>>

pollVars == <<fd_events, timeout, meta, events, path>>
clockVars == <<clock_id, wall, instant, START_MONOTONIC, PERF_COUNTER_RES,
               perfFreq, monoMax>>

-----------------------------------------------------------------------------
(* Bounds of the model *)

MaxSubs == 3        \* longest subscription list
MaxFileLen == 1     \* largest file length the host reports
MaxWall == 3        \* largest wall-clock reading
MaxInstant == 2     \* largest performance-counter reading
MaxCpu == 1         \* largest CPU-time reading
MaxClockId == 5     \* largest clock id the guest passes

Files == {1, 2}
Userdata == {1, 2}
Delays == {5}
ClockUserdata == {3}
PerfFreqs == {10000000, 3579545}

-----------------------------------------------------------------------------
(* crate::wasi constants used by the two files *)

WASI_ESUCCESS == 0
WASI_CLOCK_REALTIME == 0
WASI_CLOCK_MONOTONIC == 1
WASI_CLOCK_PROCESS_CPUTIME_ID == 2
WASI_CLOCK_THREAD_CPUTIME_ID == 3
WASI_EVENTTYPE_CLOCK == 0
WASI_EVENTTYPE_FD_READ == 1
WASI_EVENTTYPE_FD_WRITE == 2
NANOS_PER_SEC == 1000000000

\* __wasi_timestamp_t is u64; its maximum is scaled into the modelled time
\* range so that the failing branch of try_into() can be taken.
TimestampMax == MaxWall - 1

-----------------------------------------------------------------------------
(* Values *)

None == <<>>
Some(x) == <<x>>

Ok(v) == [tag |-> "Ok", val |-> v, err |-> "none"]
Err(e) == [tag |-> "Err", val |-> 0, err |-> e]
Panic(msg) == [tag |-> "Panic", val |-> 0, err |-> msg]
NoRet == [tag |-> "none", val |-> 0, err |-> "none"]

\* crate::fdentry::Descriptor
Descriptor ==
    {[kind |-> k, file |-> 0] : k \in {"Stdin", "Stdout", "Stderr"}}
        \cup {[kind |-> "OsFile", file |-> f] : f \in Files}

FdEventData ==
    [descriptor : Descriptor,
     type : {WASI_EVENTTYPE_FD_READ, WASI_EVENTTYPE_FD_WRITE},
     userdata : Userdata]

ClockEventData == [delay : Delays, userdata : ClockUserdata]

\* std::io::Result<Metadata>: <<>> is Err, <<n>> is Ok with len() = n
MetaResult == {None} \cup {Some(n) : n \in 0..MaxFileLen}

\* io::Result<Duration> of cpu_time::{ProcessTime, ThreadTime}::try_now
CpuResult == {None} \cup {Some(d) : d \in 0..MaxCpu}

NoMeta == [f \in Files |-> Some(0)]

-----------------------------------------------------------------------------
(* macros.rs: the hostcalls! wrapper *)

\* Error::as_wasi_errno
as_wasi_errno(e) ==
    CASE e = "EINVAL" -> 28
      [] e = "EFAULT" -> 21
      [] e = "EOVERFLOW" -> 61
      [] e = "ENOTSUP" -> 58
      [] OTHER -> 29

\* The body of the generated function after the implementation has run.
\* A panic unwinds through it: nothing is logged and nothing is returned.
hostcalls(fn, r) ==
    IF r.tag = "Panic"
    THEN [trace |-> <<>>, status |-> None, pc |-> "panicked"]
    ELSE [trace |-> <<[name |-> fn, outcome |-> r]>>,
          status |-> Some(IF r.tag = "Ok" THEN WASI_ESUCCESS
                          ELSE as_wasi_errno(r.err)),
          pc |-> "returned"]

-----------------------------------------------------------------------------
(* misc.rs: poll_oneoff *)

\* IsNoop with is_some() written for is_none()
IsNoop_some(t, fds) == fds = <<>> /\ t # None

\* The early return of the first statement.
IsNoop(t, fds) == fds = <<>> /\ t = None

Reverse(s) == [i \in 1..Len(s) |-> s[Len(s) + 1 - i]]

\* Partition with immediate_events.insert(0, event) written for push(event)
Partition_insert(fds) ==
    [stdin_events |-> SelectSeq(fds, LAMBDA e : e.descriptor.kind = "Stdin"),
     immediate_events |->
         Reverse(SelectSeq(fds, LAMBDA e : e.descriptor.kind # "Stdin"))]

\* The loop that splits fd_events into stdin_events and immediate_events.
Partition(fds) ==
    [stdin_events |-> SelectSeq(fds, LAMBDA e : e.descriptor.kind = "Stdin"),
     immediate_events |-> SelectSeq(fds, LAMBDA e : e.descriptor.kind # "Stdin")]

\* HasImmediate with `> 1` written for `> 0`
HasImmediate_gt1(immediate_events) == Len(immediate_events) > 1

\* The condition of the if that chooses between the two branches.
HasImmediate(immediate_events) == Len(immediate_events) > 0

\* EventSize without the guard on the event type
EventSize_anytype(event, m) ==
    IF event.descriptor.kind = "OsFile"
    THEN m[event.descriptor.file][1]
    ELSE 0

\* The match that computes `size`; called once the metadata query succeeded.
EventSize(event, m) ==
    IF event.descriptor.kind = "OsFile" /\ event.type = WASI_EVENTTYPE_FD_READ
    THEN m[event.descriptor.file][1]
    ELSE 0

\* The __wasi_event_t pushed for one immediate event.
MakeEvent(event, size) ==
    [userdata |-> event.userdata,
     type |-> event.type,
     error |-> WASI_ESUCCESS,
     nbytes |-> size,
     flags |-> 0]

\* The for loop over immediate_events; evs is the vector being filled.
RECURSIVE ResolveImmediate(_, _, _)
ResolveImmediate(immediate_events, m, evs) ==
    IF immediate_events = <<>>
    THEN [ret |-> Ok(0), events |-> evs]
    ELSE LET event == Head(immediate_events) IN
         IF /\ event.descriptor.kind = "OsFile"
            /\ event.type = WASI_EVENTTYPE_FD_READ
            /\ m[event.descriptor.file] = None
         THEN [ret |-> Panic("FIXME return a proper error"), events |-> evs]
         ELSE IF event.descriptor.kind = "Stdin"
         THEN [ret |-> Panic("Descriptor::Stdin should have been filtered out"),
               events |-> evs]
         ELSE ResolveImmediate(Tail(immediate_events), m,
                               Append(evs, MakeEvent(event, EventSize(event, m))))

\* The else branch: the assertion, then unimplemented!().
WaitBranch(stdin_events) ==
    IF Len(stdin_events) = 0
    THEN Panic("stdin_events should not be empty")
    ELSE Panic("polling stdin on Windows not supported yet")

poll_oneoff(t, fds, evs, m) ==
    IF IsNoop(t, fds)
    THEN [ret |-> Ok(0), events |-> evs, path |-> "noop"]
    ELSE LET p == Partition(fds) IN
         IF HasImmediate(p.immediate_events)
         THEN LET r == ResolveImmediate(p.immediate_events, m, evs) IN
              [ret |-> r.ret, events |-> r.events, path |-> "immediate"]
         ELSE [ret |-> WaitBranch(p.stdin_events), events |-> evs,
               path |-> "wait"]

\* Files whose metadata a call with these subscriptions can query.
ReadFiles(fds) ==
    {fds[i].descriptor.file : i \in
        {j \in DOMAIN fds : /\ fds[j].descriptor.kind = "OsFile"
                            /\ fds[j].type = WASI_EVENTTYPE_FD_READ}}

-----------------------------------------------------------------------------
(* Actions of Spec *)

\* The caller decodes one more fd subscription into fd_events.
Subscribe(e) ==
    /\ pc = "idle"
    /\ Len(fd_events) < MaxSubs
    /\ fd_events' = Append(fd_events, e)
    /\ UNCHANGED <<pc, name, timeout, meta, events, path, ret, trace, status>>
    /\ UNCHANGED clockVars

\* The caller decodes the clock subscription into the timeout.
SetTimeout(t) ==
    /\ pc = "idle"
    /\ timeout = None
    /\ timeout' = Some(t)
    /\ UNCHANGED <<pc, name, fd_events, meta, events, path, ret, trace, status>>
    /\ UNCHANGED clockVars

\* hostcalls!{poll_oneoff}: the implementation runs on a fresh events vector;
\* m is what the host answers to the metadata queries (the files the call
\* cannot query are left at their default).
PollOneoff(m) ==
    /\ pc = "idle"
    /\ \A f \in Files \ ReadFiles(fd_events) : m[f] = NoMeta[f]
    /\ LET r == poll_oneoff(timeout, fd_events, <<>>, m)
           w == hostcalls("poll_oneoff", r.ret)
       IN /\ name' = "poll_oneoff"
          /\ meta' = m
          /\ events' = r.events
          /\ path' = r.path
          /\ ret' = r.ret
          /\ trace' = w.trace
          /\ status' = w.status
          /\ pc' = w.pc
    /\ UNCHANGED <<fd_events, timeout>>
    /\ UNCHANGED clockVars

\* The status is back with the guest; the next call starts from fresh vectors.
Return ==
    /\ pc = "returned"
    /\ pc' = "idle"
    /\ name' = ""
    /\ fd_events' = <<>>
    /\ timeout' = None
    /\ meta' = NoMeta
    /\ events' = <<>>
    /\ path' = "none"
    /\ ret' = NoRet
    /\ trace' = <<>>
    /\ status' = None
    /\ UNCHANGED clockVars

InitWith(freqs) ==
    /\ pc = "idle"
    /\ name = ""
    /\ fd_events = <<>>
    /\ timeout = None
    /\ meta = NoMeta
    /\ events = <<>>
    /\ path = "none"
    /\ ret = NoRet
    /\ trace = <<>>
    /\ status = None
    /\ clock_id = 0
    /\ wall \in 0..MaxWall
    /\ instant = 0
    /\ START_MONOTONIC = None
    /\ PERF_COUNTER_RES = None
    /\ perfFreq \in freqs
    /\ monoMax = -1

Init == InitWith({10000000}) /\ wall = 0

Next ==
    \/ \E e \in FdEventData : Subscribe(e)
    \/ \E t \in ClockEventData : SetTimeout(t)
    \/ \E m \in [Files -> MetaResult] : PollOneoff(m)
    \/ Return

Spec == Init /\ [][Next]_vars

-----------------------------------------------------------------------------
(* misc.rs: the clocks *)

ClockIds == 0..MaxClockId

ValidClockIds ==
    {WASI_CLOCK_REALTIME, WASI_CLOCK_MONOTONIC,
     WASI_CLOCK_PROCESS_CPUTIME_ID, WASI_CLOCK_THREAD_CPUTIME_ID}

\* NANOS_PER_SEC / freq, with u64 division
get_perf_counter_resolution_ns(freq) == NANOS_PER_SEC \div freq

\* lazy_static: the value a cell holds once it has been dereferenced
Force(cell, init) == IF cell = None THEN Some(init) ELSE cell

\* clock_res_get without the THREAD_CPUTIME_ID arm
clock_res_get_noarm(id, res) ==
    CASE id = WASI_CLOCK_REALTIME -> Ok(55000000)
      [] id = WASI_CLOCK_MONOTONIC -> Ok(res[1])
      [] id = WASI_CLOCK_PROCESS_CPUTIME_ID -> Ok(100)
      [] OTHER -> Err("EINVAL")

\* PERF_COUNTER_RES is dereferenced by the MONOTONIC arm only.
clock_res_get(id, res) ==
    CASE id = WASI_CLOCK_REALTIME -> Ok(55000000)
      [] id = WASI_CLOCK_MONOTONIC -> Ok(res[1])
      [] id = WASI_CLOCK_PROCESS_CPUTIME_ID -> Ok(100)
      [] id = WASI_CLOCK_THREAD_CPUTIME_ID -> Ok(100)
      [] OTHER -> Err("EINVAL")

\* START_MONOTONIC.elapsed()
get_monotonic_time(start, now) == Ok(now - start[1])

\* SystemTime::now().duration_since(UNIX_EPOCH).map_err(|_| Error::EFAULT)
get_realtime_time(w) == IF w < 0 THEN Err("EFAULT") ELSE Ok(w)

\* get_proc_cputime / get_thread_cputime: try_now()? then as_duration()
get_cputime(cpu) == IF cpu = None THEN Err("EIO") ELSE Ok(cpu[1])

\* duration.as_nanos().try_into().map_err(Into::into)
to_timestamp(nanos) ==
    IF nanos > TimestampMax THEN Err("EOVERFLOW") ELSE Ok(nanos)

\* The clock each arm of clock_time_get reads.
ClockArm(id) ==
    CASE id = WASI_CLOCK_REALTIME -> "monotonic"
      [] id = WASI_CLOCK_MONOTONIC -> "realtime"
      [] id = WASI_CLOCK_PROCESS_CPUTIME_ID -> "proc_cputime"
      [] id = WASI_CLOCK_THREAD_CPUTIME_ID -> "thread_cputime"
      [] OTHER -> "EINVAL"

clock_time_get(id, start, now, w, cpu) ==
    LET arm == ClockArm(id)
        duration ==
            CASE arm = "monotonic" -> get_monotonic_time(start, now)
              [] arm = "realtime" -> get_realtime_time(w)
              [] arm = "proc_cputime" -> get_cputime(cpu)
              [] arm = "thread_cputime" -> get_cputime(cpu)
              [] OTHER -> Err("EINVAL")
    IN IF duration.tag = "Err" THEN duration ELSE to_timestamp(duration.val)

-----------------------------------------------------------------------------
(* Actions of SpecClock *)

\* Time passes on the host: both clocks advance.
Tick ==
    /\ pc # "panicked"
    /\ instant < MaxInstant
    /\ instant' = instant + 1
    /\ wall' = IF wall < MaxWall THEN wall + 1 ELSE wall
    /\ UNCHANGED <<pc, name, ret, trace, status, clock_id, START_MONOTONIC,
                   PERF_COUNTER_RES, perfFreq, monoMax>>
    /\ UNCHANGED pollVars

\* The host's wall clock is set (NTP, the user); -1 is a time before the epoch.
AdjustWall(w) ==
    /\ pc # "panicked"
    /\ w # wall
    /\ wall' = w
    /\ UNCHANGED <<pc, name, ret, trace, status, clock_id, instant,
                   START_MONOTONIC, PERF_COUNTER_RES, perfFreq, monoMax>>
    /\ UNCHANGED pollVars

\* The MONOTONIC readings the guest has been given, folded into their maximum
\* when the next hostcall begins.
SeenMax ==
    IF /\ name = "clock_time_get"
       /\ clock_id = WASI_CLOCK_MONOTONIC
       /\ ret.tag = "Ok"
       /\ ret.val > monoMax
    THEN ret.val
    ELSE monoMax

\* hostcalls!{clock_res_get}
ClockResGet(id) ==
    /\ pc # "panicked"
    /\ LET cell == IF id = WASI_CLOCK_MONOTONIC
                   THEN Force(PERF_COUNTER_RES,
                              get_perf_counter_resolution_ns(perfFreq))
                   ELSE PERF_COUNTER_RES
           r == clock_res_get(id, cell)
           w == hostcalls("clock_res_get", r)
       IN /\ PERF_COUNTER_RES' = cell
          /\ ret' = r
          /\ trace' = w.trace
          /\ status' = w.status
          /\ pc' = w.pc
    /\ name' = "clock_res_get"
    /\ clock_id' = id
    /\ monoMax' = SeenMax
    /\ UNCHANGED <<wall, instant, START_MONOTONIC, perfFreq>>
    /\ UNCHANGED pollVars

\* hostcalls!{clock_time_get}; cpu is what the host answers to a CPU-time query
ClockTimeGet(id, cpu) ==
    /\ pc # "panicked"
    /\ ClockArm(id) \notin {"proc_cputime", "thread_cputime"} => cpu = Some(0)
    /\ LET cell == IF ClockArm(id) = "monotonic"
                   THEN Force(START_MONOTONIC, instant)
                   ELSE START_MONOTONIC
           r == clock_time_get(id, cell, instant, wall, cpu)
           w == hostcalls("clock_time_get", r)
       IN /\ START_MONOTONIC' = cell
          /\ ret' = r
          /\ trace' = w.trace
          /\ status' = w.status
          /\ pc' = w.pc
    /\ name' = "clock_time_get"
    /\ clock_id' = id
    /\ monoMax' = SeenMax
    /\ UNCHANGED <<wall, instant, PERF_COUNTER_RES, perfFreq>>
    /\ UNCHANGED pollVars

InitClock == InitWith(PerfFreqs)

NextClock ==
    \/ Tick
    \/ \E w \in -1..MaxWall : AdjustWall(w)
    \/ \E id \in ClockIds : ClockResGet(id)
    \/ \E id \in ClockIds : \E cpu \in CpuResult : ClockTimeGet(id, cpu)

SpecClock == InitClock /\ [][NextClock]_vars

-----------------------------------------------------------------------------
(* Properties *)

\* A poll_oneoff invocation has run (to its return or to a panic).
PollDone == pc # "idle" /\ name = "poll_oneoff"

IsStdin(e) == e.descriptor.kind = "Stdin"
IsFileRead(e) ==
    e.descriptor.kind = "OsFile" /\ e.type = WASI_EVENTTYPE_FD_READ

\* The subscriptions of the call on a descriptor other than StandardInput, and
\* those on StandardInput, in input order.
ImmediateSubs == SelectSeq(fd_events, LAMBDA e : ~IsStdin(e))
StdinSubs == SelectSeq(fd_events, LAMBDA e : IsStdin(e))

\* Some FileLike Read subscription of the call has a failing metadata query.
MetadataFails ==
    \E i \in DOMAIN fd_events :
        IsFileRead(fd_events[i]) /\ meta[fd_events[i].descriptor.file] = None

NoClockEvent ==
    \A i \in DOMAIN events : events[i].type # WASI_EVENTTYPE_CLOCK

\* No event beyond those of the non-StandardInput subscriptions.
NoStdinEvent ==
    /\ Len(events) <= Len(ImmediateSubs)
    /\ \A i \in DOMAIN events :
           \E j \in DOMAIN fd_events :
               /\ ~IsStdin(fd_events[j])
               /\ events[i].userdata = fd_events[j].userdata
               /\ events[i].type = fd_events[j].type

C2_OrderedEvents ==
    (PollDone /\ ImmediateSubs # <<>> /\ ret.tag = "Ok") =>
        /\ Len(events) = Len(ImmediateSubs)
        /\ \A i \in DOMAIN events :
               /\ events[i].userdata = ImmediateSubs[i].userdata
               /\ events[i].type = ImmediateSubs[i].type
               /\ events[i].error = WASI_ESUCCESS

C2_Witness ==
    /\ PollDone
    /\ ret.tag = "Ok"
    /\ Len(fd_events) = 3
    /\ ~IsStdin(fd_events[1])
    /\ IsStdin(fd_events[2])
    /\ ~IsStdin(fd_events[3])
    /\ fd_events[1].userdata # fd_events[3].userdata
    /\ fd_events[1].type # fd_events[3].type
    /\ Len(events) = 2

\* C3: in every successful result the byte count of an event is the length
\* the host reported for the file when the subscription is a Read on a
\* FileLike descriptor, and zero for every other immediate subscription; the
\* flags are empty.
C3_ByteCounts ==
    (PollDone /\ ret.tag = "Ok" /\ ImmediateSubs # <<>>) =>
        /\ Len(events) = Len(ImmediateSubs)
        /\ \A i \in DOMAIN events :
               /\ events[i].flags = 0
               /\ IsFileRead(ImmediateSubs[i]) =>
                      Some(events[i].nbytes) =
                          meta[ImmediateSubs[i].descriptor.file]
               /\ ~IsFileRead(ImmediateSubs[i]) => events[i].nbytes = 0

C3_Witness ==
    /\ PollDone
    /\ ret.tag = "Ok"
    /\ \E i, j, k \in DOMAIN fd_events :
           /\ IsFileRead(fd_events[i])
           /\ meta[fd_events[i].descriptor.file] = Some(MaxFileLen)
           /\ fd_events[j].descriptor = fd_events[i].descriptor
           /\ fd_events[j].type = WASI_EVENTTYPE_FD_WRITE
           /\ fd_events[k].descriptor.kind = "Stdout"
           /\ fd_events[k].type = WASI_EVENTTYPE_FD_READ
    /\ \E i \in DOMAIN events : events[i].nbytes = MaxFileLen

\* C4: when the metadata query of a FileLike Read subscription fails during
\* the immediate resolution, the call returns the ResourceFault error (EFAULT)
\* and reports no events.
C4_Original ==
    (PollDone /\ MetadataFails) =>
        /\ pc = "returned"
        /\ ret = Err("EFAULT")
        /\ events = <<>>

\* C5: a call with only StandardInput subscriptions returns the Unsupported
\* error (ENOTSUP), reports no event and takes no aborting path.
C5_Original ==
    (PollDone /\ fd_events # <<>> /\ ImmediateSubs = <<>>) =>
        /\ pc = "returned"
        /\ ret = Err("ENOTSUP")
        /\ events = <<>>

\* C6: a call with an empty subscription list and no timeout returns success
\* at once and leaves the events empty.
C6_Noop ==
    (PollDone /\ fd_events = <<>> /\ timeout = None) =>
        /\ pc = "returned"
        /\ ret = Ok(0)
        /\ status = Some(WASI_ESUCCESS)
        /\ path = "noop"
        /\ events = <<>>

C6_Witness ==
    /\ PollDone
    /\ fd_events = <<>>
    /\ timeout = None
    /\ path = "noop"

ClockDone == pc # "idle" /\ name \in {"clock_res_get", "clock_time_get"}

\* C7: for a clock id outside the four enumerated ones clock_res_get and
\* clock_time_get fail with EINVAL and return no value; for each of the four
\* neither fails with EINVAL.
C7_InvalidClockId ==
    ClockDone =>
        /\ clock_id \notin ValidClockIds =>
               ret = Err("EINVAL") /\ status = Some(as_wasi_errno("EINVAL"))
        /\ clock_id \in ValidClockIds => ret # Err("EINVAL")

C7_Witness ==
    /\ ClockDone
    /\ name = "clock_time_get"
    /\ clock_id \notin ValidClockIds
    /\ ret = Err("EINVAL")
    /\ status = Some(28)

\* C8: every successful clock_time_get(MONOTONIC) result is at least every
\* earlier clock_time_get(MONOTONIC) result of the process.
C8_Original ==
    (/\ ClockDone
     /\ name = "clock_time_get"
     /\ clock_id = WASI_CLOCK_MONOTONIC
     /\ ret.tag = "Ok") => ret.val >= monoMax

\* C9: every invocation through the wrapper ends with exactly one trace
\* record (name and outcome) and a numeric status: success exactly when the
\* implementation succeeded, otherwise the code of its error.
C9_Original ==
    pc # "idle" =>
        /\ Len(trace) = 1
        /\ trace[1].name = name
        /\ trace[1].outcome = ret
        /\ ret.tag \in {"Ok", "Err"}
        /\ status # None
        /\ ret.tag = "Ok" <=> status = Some(WASI_ESUCCESS)
        /\ ret.tag = "Err" => status = Some(as_wasi_errno(ret.err))

\* C10: whenever a call reaches the wait branch, its set of StandardInput
\* subscriptions is non-empty.
C10_Original == (PollDone /\ path = "wait") => StdinSubs # <<>>

====
